---- MODULE Spec2Model ----
(***************************************************************************)
(* Model of interfaces/sourcegen/sourcegen/_helpers.py: normalize_indent   *)
(* and get_preamble.  A Python str is a sequence of one-character strings; *)
(* each statement of a function is one action, pc names the next line.     *)
(***************************************************************************)
EXTENDS Integers, Sequences, FiniteSets, TLC

VARIABLES
    arg,            \* the argument the caller passes to normalize_indent
    code,           \* local `code` of normalize_indent
    code_context,   \* inspect.stack()[1].code_context: [present, lines]
    call_line,      \* local `call_line`
    indent,         \* local `indent`
    pc,             \* next line of normalize_indent, or how the call ended
    ret,            \* value normalize_indent returned
    file,           \* preamble.txt beside the module: [exists, data]
    ppc,            \* position inside get_preamble, or how the call ended
    pret,           \* value get_preamble returned
    reads,          \* read attempts made by the current get_preamble call
    calls           \* get_preamble calls started so far

vars == <<arg, code, code_context, call_line, indent, pc, ret,
          file, ppc, pret, reads, calls>>

nvars == <<arg, code, code_context, call_line, indent, pc, ret>>
pvars == <<file, ppc, pret, reads, calls>>

----------------------------------------------------------------------------
(* Bounds of the model *)

MaxLen == 6          \* longest enumerated text block
MaxIndent == 2       \* deepest enumerated caller indentation
MaxFileLen == 4      \* longest enumerated preamble.txt
MaxCalls == 2        \* get_preamble calls in one behaviour

----------------------------------------------------------------------------
(* Python str primitives *)

\* [ \t] of textwrap's regular expressions
Blanks == {" ", "\t"}

\* characters str.strip(), str.lstrip() and str.isspace() treat as whitespace
Whitespace == {" ", "\t", "\n", "\r"}

Spaces(n) == [i \in 1..n |-> " "]

\* s[n:]
SliceFrom(s, n) == SubSeq(s, n + 1, Len(s))

\* str.split(sep) for a one-character separator
RECURSIVE SplitOn(_, _)
SplitOn(s, sep) ==
    IF \A i \in 1..Len(s) : s[i] # sep
    THEN <<s>>
    ELSE LET k == CHOOSE i \in 1..Len(s) :
                      s[i] = sep /\ \A j \in 1..(i - 1) : s[j] # sep
         IN  <<SubSeq(s, 1, k - 1)>> \o SplitOn(SubSeq(s, k + 1, Len(s)), sep)

\* sep.join(lines)
RECURSIVE JoinWith(_, _)
JoinWith(lines, sep) ==
    IF Len(lines) = 0 THEN <<>>
    ELSE IF Len(lines) = 1 THEN lines[1]
    ELSE lines[1] \o <<sep>> \o JoinWith(Tail(lines), sep)

\* number of leading characters of s that belong to set
LeadingIn(s, set) ==
    CHOOSE n \in 0..Len(s) :
        /\ \A i \in 1..n : s[i] \in set
        /\ (n < Len(s) => s[n + 1] \notin set)

\* number of trailing characters of s that belong to set
TrailingIn(s, set) ==
    CHOOSE n \in 0..Len(s) :
        /\ \A i \in (Len(s) - n + 1)..Len(s) : s[i] \in set
        /\ (n < Len(s) => s[Len(s) - n] \notin set)

\* str.lstrip()
LStrip(s) == SliceFrom(s, LeadingIn(s, Whitespace))

\* str.strip()
Strip(s) ==
    LET t == LStrip(s)
    IN  SubSeq(t, 1, Len(t) - TrailingIn(t, Whitespace))

\* longest common prefix of two strings
CommonPrefix(a, b) ==
    LET m == IF Len(a) < Len(b) THEN Len(a) ELSE Len(b)
        n == CHOOSE k \in 0..m :
                 /\ \A i \in 1..k : a[i] = b[i]
                 /\ (k < m => a[k + 1] # b[k + 1])
    IN  SubSeq(a, 1, n)

----------------------------------------------------------------------------
(* textwrap.dedent and textwrap.indent, as line 9 and line 21 use them *)

\* a line matched by ^[ \t]+$ or empty: dedent leaves it empty
IsBlankLine(l) == \A i \in 1..Len(l) : l[i] \in Blanks

\* the margin dedent computes: the longest common prefix of the leading
\* blanks of the lines that hold a non-blank character
RECURSIVE Margin(_)
Margin(indents) ==
    IF Len(indents) = 0 THEN <<>>
    ELSE IF Len(indents) = 1 THEN indents[1]
    ELSE CommonPrefix(indents[1], Margin(Tail(indents)))

Dedent(text) ==
    LET lines   == SplitOn(text, "\n")
        norm    == [i \in 1..Len(lines) |->
                       IF IsBlankLine(lines[i]) THEN <<>> ELSE lines[i]]
        full    == SelectSeq(norm, LAMBDA l : l # <<>>)
        indents == [i \in 1..Len(full) |->
                       SubSeq(full[i], 1, LeadingIn(full[i], Blanks))]
        margin  == Margin(indents)
    IN  JoinWith([i \in 1..Len(norm) |->
                     IF norm[i] = <<>> THEN <<>>
                     ELSE SliceFrom(norm[i], Len(margin))], "\n")

\* textwrap.indent's default predicate: line.strip() is not empty
HasContent(l) == \E i \in 1..Len(l) : l[i] \notin Whitespace

Indent(text, prefix) ==
    LET lines == SplitOn(text, "\n")
    IN  JoinWith([i \in 1..Len(lines) |->
                     IF HasContent(lines[i]) THEN prefix \o lines[i]
                     ELSE lines[i]], "\n")

\* a dedent that removes every line's own indentation
DedentStripEachLine(text) ==
    LET lines == SplitOn(text, "\n")
    IN  Strip(JoinWith([i \in 1..Len(lines) |->
                           SliceFrom(lines[i], LeadingIn(lines[i], Blanks))], "\n"))

\* line 9: textwrap.dedent(code).strip()
DedentStrip(text) == Strip(Dedent(text))

\* an indent that prefixes every line, blank or not
ReindentEveryLine(text, n) ==
    LET lines == SplitOn(text, "\n")
    IN  JoinWith([i \in 1..Len(lines) |-> Spaces(n) \o lines[i]], "\n")

\* an indent one column too deep
ReindentOneMore(text, n) == Indent(text, Spaces(n + 1))

\* line 21: textwrap.indent(code, ' ' * indent)
Reindent(text, n) == Indent(text, Spaces(n))

\* line 23 left out
DropNothing(text, n) == text

\* line 23 one character too far
DropOneMore(text, n) == SliceFrom(text, n + 1)

\* line 23: code[indent:]
DropIndent(text, n) == SliceFrom(text, n)

\* the subtraction of line 15 left out
CallIndentStripped(line) == Len(LStrip(line))

\* line 15: len(call_line) - len(call_line.lstrip())
CallIndent(line) == Len(line) - Len(LStrip(line))

\* the test of line 20 taken for every caller line
IsInterpolationAlways(line, n) == TRUE

\* line 20: call_line[indent] == '{'
IsInterpolation(line, n) == line[n + 1] = "{"

----------------------------------------------------------------------------
(* Inputs *)

Alphabet == {" ", "\t", "\n", "a"}

Strings(S, n) == UNION {[1..k -> S] : k \in 0..n}

\* the block of the specification's scenario: "def f():\n    pass"
ScenarioBlock ==
    <<"d", "e", "f", " ", "f", "(", ")", ":", "\n",
      " ", " ", " ", " ", "p", "a", "s", "s">>

CodeInputs == Strings(Alphabet, MaxLen) \cup {ScenarioBlock}

\* what follows the indentation on the caller's line: an interpolation,
\* a plain statement, or nothing (a blank line)
LineTails == { <<"{", "n", "}", "\n">>, <<"x", "\n">>, <<"\n">> }

\* the scenario's caller lines at column 4
ScenarioLines ==
    { <<" ", " ", " ", " ", "{", "n", "}", "\n">>,
      <<" ", " ", " ", " ", "x", "\n">> }

CallLines ==
    {Spaces(n) \o t : n \in 0..MaxIndent, t \in LineTails} \cup ScenarioLines

NoContext == [present |-> FALSE, lines |-> <<>>]

Contexts == {NoContext} \cup {[present |-> TRUE, lines |-> <<l>>] : l \in CallLines}

FileChars == {"a", "\r", "\n"}

Missing == [exists |-> FALSE, data |-> <<>>]

Files == {Missing} \cup {[exists |-> TRUE, data |-> d] : d \in Strings(FileChars, MaxFileLen)}

----------------------------------------------------------------------------
(* normalize_indent, one action per statement *)

NormalizeIdle ==
    /\ arg = <<>> /\ code = <<>> /\ code_context = NoContext
    /\ call_line = <<>> /\ indent = 0 /\ pc = "idle" /\ ret = <<>>

PreambleIdle ==
    /\ file = Missing /\ ppc = "idle" /\ pret = <<>> /\ reads = 0 /\ calls = 0

\* a caller invokes normalize_indent(code) from some line of its source
Init ==
    /\ arg \in CodeInputs
    /\ code = arg
    /\ code_context \in Contexts
    /\ call_line = <<>>
    /\ indent = 0
    /\ pc = "L9"
    /\ ret = <<>>
    /\ PreambleIdle

\* code = textwrap.dedent(code).strip()
L9 ==
    /\ pc = "L9"
    /\ code' = DedentStrip(code)
    /\ pc' = "L11"
    /\ UNCHANGED <<arg, code_context, call_line, indent, ret, pvars>>

\* indent = 0
L11 ==
    /\ pc = "L11"
    /\ indent' = 0
    /\ pc' = "L13"
    /\ UNCHANGED <<arg, code, code_context, call_line, ret, pvars>>

\* call_line = inspect.stack()[1].code_context[0]
L13 ==
    /\ pc = "L13"
    /\ code_context.present
    /\ call_line' = code_context.lines[1]
    /\ pc' = "L15"
    /\ UNCHANGED <<arg, code, code_context, indent, ret, pvars>>

\* code_context is None: subscripting it raises TypeError
L13TypeError ==
    /\ pc = "L13"
    /\ ~code_context.present
    /\ pc' = "TypeError"
    /\ UNCHANGED <<arg, code, code_context, call_line, indent, ret, pvars>>

\* indent = len(call_line) - len(call_line.lstrip())
L15 ==
    /\ pc = "L15"
    /\ indent' = CallIndent(call_line)
    /\ pc' = "L20"
    /\ UNCHANGED <<arg, code, code_context, call_line, ret, pvars>>

\* if call_line[indent] == '{': taken
L20Brace ==
    /\ pc = "L20"
    /\ indent < Len(call_line)
    /\ IsInterpolation(call_line, indent)
    /\ pc' = "L21"
    /\ UNCHANGED <<arg, code, code_context, call_line, indent, ret, pvars>>

\* if call_line[indent] == '{': not taken
L20Plain ==
    /\ pc = "L20"
    /\ indent < Len(call_line)
    /\ ~IsInterpolation(call_line, indent)
    /\ pc' = "L25"
    /\ UNCHANGED <<arg, code, code_context, call_line, indent, ret, pvars>>

\* call_line[indent] past the end of the line raises IndexError
L20IndexError ==
    /\ pc = "L20"
    /\ indent >= Len(call_line)
    /\ pc' = "IndexError"
    /\ UNCHANGED <<arg, code, code_context, call_line, indent, ret, pvars>>

\* code = textwrap.indent(code, ' ' * indent)
L21 ==
    /\ pc = "L21"
    /\ code' = Reindent(code, indent)
    /\ pc' = "L23"
    /\ UNCHANGED <<arg, code_context, call_line, indent, ret, pvars>>

\* code = code[indent:]
L23 ==
    /\ pc = "L23"
    /\ code' = DropIndent(code, indent)
    /\ pc' = "L25"
    /\ UNCHANGED <<arg, code_context, call_line, indent, ret, pvars>>

\* return code
L25 ==
    /\ pc = "L25"
    /\ ret' = code
    /\ pc' = "returned"
    /\ UNCHANGED <<arg, code, code_context, call_line, indent, pvars>>

Next ==
    \/ L9 \/ L11 \/ L13 \/ L13TypeError \/ L15
    \/ L20Brace \/ L20Plain \/ L20IndexError
    \/ L21 \/ L23 \/ L25

Spec == Init /\ [][Next]_vars

----------------------------------------------------------------------------
(* get_preamble *)

\* a read that keeps the file's line endings (no text-mode translation)
ReadBinary(data) == data

\* the text-mode read of Path.read_text(): universal newlines turn each
\* "\r\n" and each lone "\r" into "\n"
RECURSIVE ReadText(_)
ReadText(data) ==
    IF Len(data) = 0 THEN <<>>
    ELSE IF data[1] = "\r"
         THEN IF Len(data) >= 2 /\ data[2] = "\n"
              THEN <<"\n">> \o ReadText(SliceFrom(data, 2))
              ELSE <<"\n">> \o ReadText(Tail(data))
         ELSE <<data[1]>> \o ReadText(Tail(data))

\* a read that answers a missing file with an empty preamble
ReadOutcomeFallback(f) == "returned"

\* how Path(...).read_text() ends: open() raises when the file is missing
ReadOutcome(f) == IF f.exists THEN "returned" ELSE "FileNotFoundError"

\* read_text() opens the file for reading only: the file stays as it is
FileAfterRead(f) == f

PreambleInit ==
    /\ file \in Files
    /\ ppc = "idle"
    /\ pret = <<>>
    /\ reads = 0
    /\ calls = 0
    /\ NormalizeIdle

\* a caller invokes get_preamble()
GetPreamble ==
    /\ ppc \in {"idle", "returned", "FileNotFoundError"}
    /\ calls < MaxCalls
    /\ calls' = calls + 1
    /\ reads' = 0
    /\ pret' = <<>>
    /\ ppc' = "L28"
    /\ UNCHANGED <<file, nvars>>

\* return Path(__file__).parent.joinpath("preamble.txt").read_text()
L28 ==
    /\ ppc = "L28"
    /\ reads' = reads + 1
    /\ ppc' = ReadOutcome(file)
    /\ pret' = IF ppc' = "returned" THEN ReadText(file.data) ELSE <<>>
    /\ file' = FileAfterRead(file)
    /\ UNCHANGED <<calls, nvars>>

PreambleNext == GetPreamble \/ L28

PreambleSpec == PreambleInit /\ [][PreambleNext]_vars

----------------------------------------------------------------------------
(* normalize_indent as one function of its argument and the caller's line, *)
(* for a caller line that holds a non-whitespace character                 *)

NormalizeIndent(text, line) ==
    LET c == DedentStrip(text)
        n == CallIndent(line)
    IN  IF IsInterpolation(line, n)
        THEN DropIndent(Reindent(c, n), n)
        ELSE c

----------------------------------------------------------------------------
(* Vocabulary of the properties *)

Lines(s) == SplitOn(s, "\n")

\* the dedented, trimmed block of the call
Block == DedentStrip(arg)

\* the caller line's indentation and whether an opening brace stands there
Column == LeadingIn(call_line, Whitespace)
AtBrace == Column < Len(call_line) /\ call_line[Column + 1] = "{"
AtPlain == Column < Len(call_line) /\ call_line[Column + 1] # "{"

Returned == pc = "returned"

\* every line of s prefixed by n spaces
PrefixEveryLine(s, n) ==
    JoinWith([i \in 1..Len(Lines(s)) |-> Spaces(n) \o Lines(s)[i]], "\n")

\* the lines of s that hold a non-blank character, in order
ContentLines(s) == SelectSeq(Lines(s), LAMBDA l : ~IsBlankLine(l))

\* s is in the form the dedent step produces: nothing to trim at either end
\* and no line made only of blanks
IsDedentedTrimmed(s) ==
    \/ s = <<>>
    \/ /\ s[1] \notin Whitespace
       /\ s[Len(s)] \notin Whitespace
       /\ \A i \in 1..Len(Lines(s)) :
              IsBlankLine(Lines(s)[i]) => Lines(s)[i] = <<>>

ScenarioIndented ==
    <<" ", " ", " ", " ", "d", "e", "f", " ", "f", "(", ")", ":", "\n",
      " ", " ", " ", " ", " ", " ", " ", " ", "p", "a", "s", "s">>

ScenarioRestIndented ==
    <<"d", "e", "f", " ", "f", "(", ")", ":", "\n",
      " ", " ", " ", " ", " ", " ", " ", " ", "p", "a", "s", "s">>

ScenarioBraceLine == <<" ", " ", " ", " ", "{", "n", "}", "\n">>
ScenarioPlainLine == <<" ", " ", " ", " ", "x", "\n">>

----------------------------------------------------------------------------
(* C1 *)

\* C1 as stated: whatever the caller line, the result is the dedented,
\* trimmed block with every line prefixed by the caller's N spaces; the
\* block "def f():\n    pass" from column 4 gives "    def f():\n        pass".
C1_EveryLinePrefixed ==
    Returned =>
        /\ ret = PrefixEveryLine(Block, Column)
        /\ (arg = ScenarioBlock /\ Column = 4 => ret = ScenarioIndented)

\* C1 amended: with '{' at column N of the caller line the result is the
\* dedented, trimmed block with every non-empty line after the first prefixed
\* by exactly N spaces and the first line and the empty lines left as they are;
\* with any other character there the result is the dedented, trimmed block
\* itself.  "def f():\n    pass" from "    {...}" gives
\* "def f():\n        pass" and from a plain statement "def f():\n    pass".
C1_Reindented ==
    Returned =>
        LET in  == Lines(Block)
            out == Lines(ret)
        IN  /\ Len(out) = Len(in)
            /\ \A i \in 1..Len(in) :
                   out[i] = IF AtBrace /\ i > 1 /\ in[i] # <<>>
                            THEN Spaces(Column) \o in[i]
                            ELSE in[i]
            /\ (arg = ScenarioBlock /\ call_line = ScenarioBraceLine
                    => ret = ScenarioRestIndented)
            /\ (arg = ScenarioBlock /\ call_line = ScenarioPlainLine
                    => ret = ScenarioBlock)

C1_Witness ==
    /\ Returned
    /\ arg = ScenarioBlock
    /\ call_line = ScenarioBraceLine
    /\ ret = ScenarioRestIndented

----------------------------------------------------------------------------
(* C2 *)

----------------------------------------------------------------------------
(* C3 *)

\* C3 as stated: with '{' at column N the first line of the result carries no
\* added indentation and every later line of the block is prefixed by exactly
\* N spaces.
C3_EveryLaterLinePrefixed ==
    (Returned /\ AtBrace) =>
        LET in  == Lines(Block)
            out == Lines(ret)
        IN  /\ Len(out) = Len(in)
            /\ out[1] = in[1]
            /\ \A i \in 2..Len(in) : out[i] = Spaces(Column) \o in[i]

\* C3 amended: with '{' at column N, line 21 prefixes every non-empty line of
\* the dedented, trimmed block with N spaces (empty lines and the empty block
\* get none) and line 23 then drops N leading characters of the text, so the
\* first line of the result carries no added indentation, every later
\* non-empty line is prefixed by exactly N spaces and every empty line stays
\* empty.
C3_InterpolationCase ==
    LET in == Lines(Block)
    IN  /\ pc = "L23" =>
               LET mid == Lines(code)
               IN  /\ Len(mid) = Len(in)
                   /\ \A i \in 1..Len(in) :
                          mid[i] = IF in[i] = <<>> THEN <<>>
                                   ELSE Spaces(indent) \o in[i]
        /\ (Returned /\ AtBrace) =>
               LET out == Lines(ret)
               IN  /\ Len(out) = Len(in)
                   /\ out[1] = in[1]
                   /\ \A i \in 2..Len(in) :
                          out[i] = IF in[i] = <<>> THEN <<>>
                                   ELSE Spaces(Column) \o in[i]

C3_Witness ==
    /\ Returned /\ AtBrace /\ Column = 2
    /\ Len(Lines(ret)) = 3
    /\ Lines(ret)[2] = <<>>
    /\ Lines(ret)[3] = <<" ", " ", "a">>

----------------------------------------------------------------------------
(* C4 *)

\* C4: after the dedent step every line that holds a non-blank character has
\* lost the same amount of leading whitespace, so each keeps its indentation
\* relative to the least-indented line, also when the first such line is
\* indented deeper than a later one.
C4_RelativeIndentationKept ==
    pc = "L11" =>
        LET before == ContentLines(arg)
            after  == ContentLines(code)
        IN  /\ Len(after) = Len(before)
            /\ \E m \in 0..Len(arg) :
                   \A i \in 1..Len(before) :
                       LeadingIn(after[i], Blanks)
                           = LeadingIn(before[i], Blanks) - m

----------------------------------------------------------------------------
(* C5 *)

\* the characters of data a text-mode read delivers: all but a "\n" that
\* follows a "\r"
Delivered(data) ==
    {i \in 1..Len(data) : ~(i > 1 /\ data[i] = "\n" /\ data[i - 1] = "\r")}

\* C5 as stated: when preamble.txt exists, get_preamble returns exactly the
\* content of the file, unmodified.
C5_Verbatim ==
    ppc = "returned" => pret = file.data

\* C5 amended: when preamble.txt exists, every call of get_preamble returns
\* the full current content of the file read as text: every character in
\* order, with each line ending "\r\n" or "\r" returned as "\n"; a file that
\* holds no carriage return is returned unchanged.
C5_TextContent ==
    /\ (file.exists /\ ppc \notin {"idle", "L28"}) => ppc = "returned"
    /\ ppc = "returned" =>
           LET data == file.data
               kept == Delivered(data)
               at(j) == CHOOSE i \in kept :
                            Cardinality({k \in kept : k <= i}) = j
           IN  /\ file.exists
               /\ Len(pret) = Cardinality(kept)
               /\ \A j \in 1..Len(pret) :
                      pret[j] = IF data[at(j)] = "\r" THEN "\n"
                                ELSE data[at(j)]
               /\ ((\A i \in 1..Len(data) : data[i] # "\r") => pret = data)

C5_Witness ==
    /\ ppc = "returned" /\ calls = 2
    /\ file.data = <<"a", "\r", "\n", "a">>
    /\ pret = <<"a", "\n", "a">>

----------------------------------------------------------------------------
(* C6 *)

\* C6: when preamble.txt is missing, the single read attempt of a call ends
\* the call in FileNotFoundError with no value returned, the file system left
\* as it was, and nothing follows but the caller's next call.
C6_MissingFileRaises ==
    [][ /\ (ppc = "L28" /\ ~file.exists) =>
               /\ ppc' = "FileNotFoundError"
               /\ pret' = <<>>
               /\ reads = 0 /\ reads' = 1
               /\ file' = file
        /\ ppc = "FileNotFoundError" =>
               /\ ppc' = "L28" /\ calls' = calls + 1
               /\ file' = file ]_vars

C6_Witness ==
    /\ ppc = "FileNotFoundError" /\ ~file.exists
    /\ reads = 1 /\ calls = 2 /\ pret = <<>>

----------------------------------------------------------------------------
(* C7 *)

\* C7 as stated: normalize_indent never ends in an error, whatever the
\* introspection context.
C7_NoErrorOutcome ==
    pc \notin {"TypeError", "IndexError"}

\* C7 amended: normalize_indent handles no error and raises none of its own:
\* it returns a string exactly when the caller's source line is available and
\* holds a non-whitespace character; when no caller line is available
\* (code_context is None) it ends in TypeError and when the line is all
\* whitespace in IndexError, both propagated to the caller.
C7_ErrorOutcomes ==
    /\ pc \in {"L15", "L20", "L21", "L23", "L25"} => code_context.present
    /\ pc \in {"L21", "L23", "L25"} => HasContent(call_line)
    /\ pc = "TypeError" <=> (pc \notin {"L9", "L11", "L13"} /\ ~code_context.present)
    /\ pc = "IndexError" =>
           /\ code_context.present
           /\ ~HasContent(code_context.lines[1])
    /\ Returned =>
           /\ code_context.present
           /\ HasContent(code_context.lines[1])

C7_Witness ==
    /\ pc = "TypeError"
    /\ ~code_context.present
    /\ arg = ScenarioBlock
    /\ code = ScenarioBlock

----------------------------------------------------------------------------
(* C8 *)

\* C8: when the first non-whitespace character of the caller line is not '{',
\* the result is the dedented, trimmed block itself, whatever the caller's
\* column.
C8_PlainCallerAddsNothing ==
    (Returned /\ AtPlain) => ret = Block

C8_Witness ==
    /\ Returned /\ AtPlain /\ Column = 2
    /\ Len(Lines(ret)) >= 2
    /\ ret = Block

----------------------------------------------------------------------------
(* C9 *)

\* C9: with '{' at column N, the N characters line 23 drops are the N spaces
\* line 21 put before the first line (for an empty block there is nothing to
\* drop), so the result holds every character of the dedented, trimmed
\* block: its first line whole, and beyond the block's own characters only N
\* spaces per later non-empty line.
C9_OnlyAddedSpacesDropped ==
    /\ pc = "L23" =>
           IF Block = <<>> THEN code = <<>>
           ELSE Len(code) >= indent /\ SubSeq(code, 1, indent) = Spaces(indent)
    /\ (Returned /\ AtBrace) =>
           LET in    == Lines(Block)
               later == {i \in 2..Len(in) : in[i] # <<>>}
           IN  /\ Lines(ret)[1] = in[1]
               /\ Len(ret) = Len(Block) + Column * Cardinality(later)

C9_Witness ==
    /\ Returned /\ AtBrace /\ Column = 2
    /\ arg = <<" ", " ">>
    /\ ret = <<>>

----------------------------------------------------------------------------
(* C10 *)

\* C10: with '{' at column N > 0, the result has as many lines as the
\* dedented, trimmed block; a line of the argument between its first and last
\* line of content that is empty or all blanks is empty in the result, and
\* every line of content after the first carries exactly N added spaces.
C10_BlankLinesNotIndented ==
    (Returned /\ AtBrace /\ Column > 0 /\ HasContent(arg)) =>
        LET al    == Lines(arg)
            first == CHOOSE i \in 1..Len(al) :
                         HasContent(al[i]) /\ \A j \in 1..(i - 1) : ~HasContent(al[j])
            last  == CHOOSE i \in 1..Len(al) :
                         HasContent(al[i]) /\ \A j \in (i + 1)..Len(al) : ~HasContent(al[j])
            in    == Lines(Block)
            out   == Lines(ret)
        IN  /\ Len(out) = Len(in)
            /\ Len(out) = last - first + 1
            /\ \A k \in 2..Len(out) :
                   IF HasContent(al[first + k - 1])
                   THEN out[k] = Spaces(Column) \o in[k]
                   ELSE out[k] = <<>>

C10_Witness ==
    /\ Returned /\ AtBrace /\ Column = 1
    /\ arg = <<"a", "\n", "\t", "\n", "a">>
    /\ ret = <<"a", "\n", "\n", " ", "a">>

====
